---- MODULE Spec2Model ----
(***************************************************************************)
(* A model of migrator.py: the rule engine (tag maps, name maps, tag       *)
(* injection, record_to_point) and the windowed copy loop of run() with    *)
(* copy_window().                                                          *)
(*                                                                         *)
(* Strings are sequences of one-character strings, so that the code's      *)
(* string operations (strip, lstrip, rstrip, replace, startswith, slicing, *)
(* re.escape, re.match, re.sub) are computed and not assumed.              *)
(* Datetimes are integers (seconds), timedeltas are integers.              *)
(***************************************************************************)
EXTENDS Integers, Sequences, FiniteSets, TLC

\* Python's None.  Characters are one-character strings, so this value is
\* no string of the model.
None == <<"None">>

\* What an operator returns when the code raises instead of returning.
Raised == <<"raised">>

(***************************************************************************)
(* String helpers (Python str methods)                                     *)
(***************************************************************************)
Digits == {"0", "1", "2", "3", "4", "5", "6", "7", "8", "9"}

Whitespace == {" ", "\t", "\n", "\r"}

DigitValue(c) ==
    CASE c = "0" -> 0 [] c = "1" -> 1 [] c = "2" -> 2 [] c = "3" -> 3
      [] c = "4" -> 4 [] c = "5" -> 5 [] c = "6" -> 6 [] c = "7" -> 7
      [] c = "8" -> 8 [] c = "9" -> 9

\* s[i:] with a 0-based i, as Python slices.
SliceFrom(s, i) == SubSeq(s, i + 1, Len(s))

\* s.startswith(p)
StartsWith(s, p) == Len(p) <= Len(s) /\ SubSeq(s, 1, Len(p)) = p

\* s.endswith(p)
EndsWith(s, p) == Len(p) <= Len(s) /\ SubSeq(s, Len(s) - Len(p) + 1, Len(s)) = p

\* s.lstrip(chars): drop the longest prefix made of characters of the set.
RECURSIVE LStrip(_, _)
LStrip(s, chars) ==
    IF s # <<>> /\ Head(s) \in chars THEN LStrip(Tail(s), chars) ELSE s

\* s.rstrip(chars): drop the longest suffix made of characters of the set.
RECURSIVE RStrip(_, _)
RStrip(s, chars) ==
    IF s # <<>> /\ s[Len(s)] \in chars
    THEN RStrip(SubSeq(s, 1, Len(s) - 1), chars)
    ELSE s

\* s.strip()
Strip(s) == RStrip(LStrip(s, Whitespace), Whitespace)

\* s.replace(c, ""): delete every occurrence of the character c.
RECURSIVE RemoveChar(_, _)
RemoveChar(s, c) ==
    IF s = <<>> THEN <<>>
    ELSE IF Head(s) = c THEN RemoveChar(Tail(s), c)
    ELSE <<Head(s)>> \o RemoveChar(Tail(s), c)

\* The 1-based index of the first occurrence of c in s at or after i, 0 if none.
RECURSIVE IndexOf(_, _, _)
IndexOf(s, c, i) ==
    IF i > Len(s) THEN 0
    ELSE IF s[i] = c THEN i
    ELSE IndexOf(s, c, i + 1)

\* c in s
Contains(s, c) == IndexOf(s, c, 1) # 0

\* The 1-based index of the first occurrence of the two characters a b, 0 if none.
RECURSIVE IndexOf2(_, _, _, _)
IndexOf2(s, a, b, i) ==
    IF i + 1 > Len(s) THEN 0
    ELSE IF s[i] = a /\ s[i + 1] = b THEN i
    ELSE IndexOf2(s, a, b, i + 1)

\* int(s) of a string of decimal digits.
RECURSIVE ParseInt(_)
ParseInt(s) ==
    IF s = <<>> THEN 0
    ELSE 10 * ParseInt(SubSeq(s, 1, Len(s) - 1)) + DigitValue(s[Len(s)])

AllDigits(s) == \A k \in 1..Len(s) : s[k] \in Digits

(***************************************************************************)
(* Regular expressions (Python re), for the syntax the rules use:          *)
(* literals, \c escapes, \d, ., ^, $, ( ), and the postfix * and + on a    *)
(* one-character atom.                                                     *)
(***************************************************************************)

\* The characters re.escape() puts a backslash before.
ReSpecial ==
    {"(", ")", "[", "]", "{", "}", "?", "*", "+", "-", "|", "^", "$", "\\",
     ".", "&", "~", "#", " ", "\t", "\n", "\r"}

\* re.escape(s)
RECURSIVE ReEscape(_)
ReEscape(s) ==
    IF s = <<>> THEN <<>>
    ELSE (IF Head(s) \in ReSpecial THEN <<"\\", Head(s)>> ELSE <<Head(s)>>)
         \o ReEscape(Tail(s))

\* escaped.replace("\\*", ".*"): every backslash-star pair becomes dot-star,
\* scanning left to right without overlap.
RECURSIVE ReplaceEscapedStar(_)
ReplaceEscapedStar(s) ==
    IF s = <<>> THEN <<>>
    ELSE IF Len(s) >= 2 /\ s[1] = "\\" /\ s[2] = "*"
    THEN <<".", "*">> \o ReplaceEscapedStar(SubSeq(s, 3, Len(s)))
    ELSE <<Head(s)>> \o ReplaceEscapedStar(Tail(s))

\* One atom of a pattern: kind is lit, any, digit, open, close, bol or eol;
\* q is the quantifier: "1", "*" or "+".
Atom(kind, c, q) == [kind |-> kind, c |-> c, q |-> q]

\* The atom that starts at p[i], without its quantifier, and its width.
AtomAt(p, i) ==
    LET c == p[i] IN
    IF c = "\\" /\ i < Len(p)
    THEN [a |-> IF p[i + 1] = "d" THEN Atom("digit", "", "1")
                ELSE Atom("lit", p[i + 1], "1"),
          w |-> 2]
    ELSE [a |-> CASE c = "." -> Atom("any", "", "1")
                  [] c = "(" -> Atom("open", "", "1")
                  [] c = ")" -> Atom("close", "", "1")
                  [] c = "^" -> Atom("bol", "", "1")
                  [] c = "$" -> Atom("eol", "", "1")
                  [] OTHER -> Atom("lit", c, "1"),
          w |-> 1]

\* The pattern string as a sequence of atoms.
RECURSIVE Tokenize(_, _)
Tokenize(p, i) ==
    IF i > Len(p) THEN <<>>
    ELSE LET r == AtomAt(p, i)
             j == i + r.w
             quantified == j <= Len(p) /\ p[j] \in {"*", "+"}
                           /\ r.a.kind \in {"lit", "any", "digit"}
         IN IF quantified
            THEN <<[r.a EXCEPT !.q = p[j]]>> \o Tokenize(p, j + 1)
            ELSE <<r.a>> \o Tokenize(p, j)

\* re.compile(p): the compiled pattern, with its pattern string (.pattern).
ReCompile(p) == [pattern |-> p]

\* Does a one-character atom match the character ch?
AtomMatches(a, ch) ==
    CASE a.kind = "lit" -> ch = a.c
      [] a.kind = "any" -> ch # "\n"
      [] a.kind = "digit" -> ch \in Digits
      [] OTHER -> FALSE

\* The number of consecutive characters of s from position j that a matches.
RECURSIVE Run(_, _, _)
Run(a, s, j) ==
    IF j <= Len(s) /\ AtomMatches(a, s[j]) THEN 1 + Run(a, s, j + 1) ELSE 0

NoMatch == [ok |-> FALSE, end |-> 0, groups |-> <<>>]

\* The matcher's bookkeeping of groups: the stack of open groups, and the
\* start and end position of every group opened so far.
NoGroups == [stack |-> <<>>, starts |-> <<>>, ends |-> <<>>]

\* Backtracking match of atoms toks[i..] against s from position j (1-based);
\* quantifiers are greedy.  The result has the position after the match and
\* the text of each group.
RECURSIVE MatchAt(_, _, _, _, _), MatchRepeat(_, _, _, _, _, _, _)
MatchAt(toks, i, s, j, g) ==
    IF i > Len(toks)
    THEN [ok |-> TRUE, end |-> j,
          groups |-> [k \in 1..Len(g.starts) |->
                        SubSeq(s, g.starts[k], g.ends[k] - 1)]]
    ELSE LET a == toks[i] IN
         CASE a.kind = "bol" ->
                IF j = 1 THEN MatchAt(toks, i + 1, s, j, g) ELSE NoMatch
           [] a.kind = "eol" ->
                IF j = Len(s) + 1 \/ (j = Len(s) /\ s[j] = "\n")
                THEN MatchAt(toks, i + 1, s, j, g) ELSE NoMatch
           [] a.kind = "open" ->
                MatchAt(toks, i + 1, s, j,
                        [stack |-> Append(g.stack, Len(g.starts) + 1),
                         starts |-> Append(g.starts, j),
                         ends |-> Append(g.ends, j)])
           [] a.kind = "close" ->
                IF g.stack = <<>> THEN NoMatch
                ELSE LET k == g.stack[Len(g.stack)] IN
                     MatchAt(toks, i + 1, s, j,
                             [stack |-> SubSeq(g.stack, 1, Len(g.stack) - 1),
                              starts |-> g.starts,
                              ends |-> [g.ends EXCEPT ![k] = j]])
           [] OTHER ->
                IF a.q = "1"
                THEN IF j <= Len(s) /\ AtomMatches(a, s[j])
                     THEN MatchAt(toks, i + 1, s, j + 1, g) ELSE NoMatch
                ELSE MatchRepeat(toks, i, s, j, g, Run(a, s, j),
                                 IF a.q = "+" THEN 1 ELSE 0)
MatchRepeat(toks, i, s, j, g, n, least) ==
    IF n < least THEN NoMatch
    ELSE LET r == MatchAt(toks, i + 1, s, j + n, g) IN
         IF r.ok THEN r ELSE MatchRepeat(toks, i, s, j, g, n - 1, least)

\* pattern.match(value): a match anchored at the start of value.
ReMatch(pat, value) == MatchAt(Tokenize(pat.pattern, 1), 1, value, 1, NoGroups)

\* s \o t, or Raised when one of them is.
Join(s, t) == IF s = Raised \/ t = Raised THEN Raised ELSE s \o t

\* The replacement template of pattern.sub expanded for one match: \1..\9 is
\* the group's text, \\ a backslash; every other character stands for itself
\* (so $1 is the two characters $ and 1).  A reference to a group the pattern
\* does not have raises.
RECURSIVE ExpandTemplate(_, _)
ExpandTemplate(repl, groups) ==
    IF repl = <<>> THEN <<>>
    ELSE IF Len(repl) >= 2 /\ repl[1] = "\\" /\ repl[2] \in (Digits \ {"0"})
    THEN IF DigitValue(repl[2]) > Len(groups) THEN Raised
         ELSE Join(groups[DigitValue(repl[2])],
                   ExpandTemplate(SubSeq(repl, 3, Len(repl)), groups))
    ELSE IF Len(repl) >= 2 /\ repl[1] = "\\" /\ repl[2] = "\\"
    THEN Join(<<"\\">>, ExpandTemplate(SubSeq(repl, 3, Len(repl)), groups))
    ELSE Join(<<Head(repl)>>, ExpandTemplate(Tail(repl), groups))

\* pattern.sub(repl, value): every non-overlapping match, found scanning from
\* the left, is replaced by the expanded template; the rest is copied.  An
\* empty match is replaced too, and the scan moves on by one character.
RECURSIVE ReSubFrom(_, _, _, _), ReSubStep(_, _, _, _, _)
ReSubFrom(toks, repl, s, j) ==
    ReSubStep(toks, repl, s, j, MatchAt(toks, 1, s, j, NoGroups))
ReSubStep(toks, repl, s, j, m) ==
    IF m.ok
    THEN Join(ExpandTemplate(repl, m.groups),
              IF m.end > j THEN ReSubFrom(toks, repl, s, m.end)
              ELSE IF j > Len(s) THEN <<>>
              ELSE Join(<<s[j]>>, ReSubFrom(toks, repl, s, j + 1)))
    ELSE IF j > Len(s) THEN <<>>
    ELSE Join(<<s[j]>>, ReSubFrom(toks, repl, s, j + 1))

ReSub(pat, repl, value) == ReSubFrom(Tokenize(pat.pattern, 1), repl, value, 1)

\* Would re.compile(p) accept the pattern?  It raises on an unbalanced
\* parenthesis, a quantifier with nothing to repeat, and a trailing backslash.
RECURSIVE ReValidFrom(_, _, _, _)
ReValidFrom(p, i, depth, canRepeat) ==
    IF i > Len(p) THEN depth = 0
    ELSE LET c == p[i] IN
         CASE c = "\\" -> i < Len(p) /\ ReValidFrom(p, i + 2, depth, TRUE)
           [] c = "(" -> ReValidFrom(p, i + 1, depth + 1, FALSE)
           [] c = ")" -> depth > 0 /\ ReValidFrom(p, i + 1, depth - 1, FALSE)
           [] c \in {"*", "+"} -> canRepeat /\ ReValidFrom(p, i + 1, depth, FALSE)
           [] c \in {"^", "$"} -> ReValidFrom(p, i + 1, depth, FALSE)
           [] OTHER -> ReValidFrom(p, i + 1, depth, TRUE)

ReValid(p) == ReValidFrom(p, 1, 0, FALSE)

(***************************************************************************)
(* Rule parsing                                                            *)
(***************************************************************************)

\* What the tail ".+$" of the rule grammars matches of t: all of t, which
\* must be non-empty and hold no newline ("$" also matches before one
\* trailing newline, which is then left out).  Raised when there is no match.
DotPlusToEnd(t) ==
    LET body == IF t # <<>> /\ t[Len(t)] = "\n"
                THEN SubSeq(t, 1, Len(t) - 1) ELSE t
    IN IF body # <<>> /\ ~Contains(body, "\n") THEN body ELSE Raised

\* A regular expression of the rule grammars that does not match.
NoGroupsMatch == [ok |-> FALSE]

\* "(?P<from>[^>]+)->(?P<to>.+)$" matched against all of t: from cannot hold
\* a ">", so the arrow is at the first ">" of t.
FromArrowTo(t) ==
    LET g == IndexOf(t, ">", 1) IN
    IF g >= 3 /\ t[g - 1] = "-" /\ DotPlusToEnd(SubSeq(t, g + 1, Len(t))) # Raised
    THEN [ok |-> TRUE, from |-> SubSeq(t, 1, g - 2),
          to |-> DotPlusToEnd(SubSeq(t, g + 1, Len(t)))]
    ELSE NoGroupsMatch

\* TAG_MAP_RE.match(s): the groups key, from and to.
TAG_MAP_RE(s) ==
    LET eq == IndexOf(s, "=", 1)
        ft == FromArrowTo(SubSeq(s, eq + 1, Len(s)))
    IN IF eq >= 2 /\ ft.ok
       THEN [ok |-> TRUE, key |-> SubSeq(s, 1, eq - 1), from |-> ft.from, to |-> ft.to]
       ELSE NoGroupsMatch

\* NAME_MAP_RE.match(s): from is lazy, so the arrow is the first one that
\* leaves from non-empty.
NAME_MAP_RE(s) ==
    LET a == IndexOf2(s, "-", ">", 2)
        to == DotPlusToEnd(SubSeq(s, a + 2, Len(s)))
    IN IF a # 0 /\ to # Raised /\ ~Contains(SubSeq(s, 1, a - 1), "\n")
       THEN [ok |-> TRUE, from |-> SubSeq(s, 1, a - 1), to |-> to]
       ELSE NoGroupsMatch

\* TAG_INJECT_RE.match(s): the optional "source_key:" is tried first (up to
\* the first colon), and without it when the rest does not match after it.
TAG_INJECT_RE(s) ==
    LET eq == IndexOf(s, "=", 1)
        rest == SubSeq(s, eq + 1, Len(s))
        colon == IndexOf(rest, ":", 1)
        withKey == FromArrowTo(SubSeq(rest, colon + 1, Len(rest)))
        without == FromArrowTo(rest)
    IN IF eq < 2 THEN NoGroupsMatch
       ELSE IF colon >= 2 /\ withKey.ok
       THEN [ok |-> TRUE, new_key |-> SubSeq(s, 1, eq - 1),
             source_key |-> SubSeq(rest, 1, colon - 1),
             from |-> withKey.from, to |-> withKey.to]
       ELSE IF without.ok
       THEN [ok |-> TRUE, new_key |-> SubSeq(s, 1, eq - 1), source_key |-> None,
             from |-> without.from, to |-> without.to]
       ELSE NoGroupsMatch

\* frm.startswith("~/") and frm.endswith("/")
IsRegexForm(frm) == StartsWith(frm, <<"~", "/">>) /\ EndsWith(frm, <<"/">>)

\* frm[2:-1]
RegexBody(frm) == SubSeq(frm, 3, Len(frm) - 1)

\* re.compile("^" + re.escape(frm).replace("\\*", ".*") + "$")
WildcardPattern(frm) ==
    ReCompile(<<"^">> \o ReplaceEscapedStar(ReEscape(frm)) \o <<"$">>)

\* In place of a rule: the spec raised ValueError (or re.error).
BadRule == [typ |-> "raised"]

\* One --tag-map spec as a rule (typ, tag, from_obj, repl).
ParseTagMap(s) ==
    LET m == TAG_MAP_RE(s)
        frm == Strip(m.from)
    IN IF ~m.ok THEN BadRule
       ELSE IF IsRegexForm(frm)
       THEN IF ReValid(RegexBody(frm))
            THEN [typ |-> "regex", tag |-> Strip(m.key),
                  from_obj |-> ReCompile(RegexBody(frm)), repl |-> m.to]
            ELSE BadRule
       ELSE IF Contains(frm, "*")
       THEN [typ |-> "wildcard", tag |-> Strip(m.key),
             from_obj |-> WildcardPattern(frm), repl |-> m.to]
       ELSE [typ |-> "exact", tag |-> Strip(m.key), from_obj |-> frm, repl |-> m.to]

\* One name-map spec as a rule (typ, from_obj, repl).
ParseNameMap(s) ==
    LET m == NAME_MAP_RE(s)
        frm == Strip(m.from)
    IN IF ~m.ok THEN BadRule
       ELSE IF IsRegexForm(frm)
       THEN IF ReValid(RegexBody(frm))
            THEN [typ |-> "regex", from_obj |-> ReCompile(RegexBody(frm)), repl |-> m.to]
            ELSE BadRule
       ELSE [typ |-> "exact", from_obj |-> frm, repl |-> m.to]

\* One --tag-inject spec as a rule (typ, new_key, source_key, from_obj, to).
ParseTagInject(s) ==
    LET m == TAG_INJECT_RE(s)
        frm == Strip(m.from)
        eq == IndexOf(s, "=", 1)
        value == Strip(SubSeq(s, eq + 1, Len(s)))
    IN IF ~m.ok
       THEN IF eq # 0 /\ IndexOf2(s, "-", ">", 1) = 0
            THEN [typ |-> "static", new_key |-> Strip(SubSeq(s, 1, eq - 1)),
                  source_key |-> None, from_obj |-> value, to |-> value]
            ELSE BadRule
       ELSE IF IsRegexForm(frm)
       THEN IF ReValid(RegexBody(frm))
            THEN [typ |-> "regex", new_key |-> Strip(m.new_key),
                  source_key |-> m.source_key,
                  from_obj |-> ReCompile(RegexBody(frm)), to |-> m.to]
            ELSE BadRule
       ELSE IF Contains(frm, "*")
       THEN [typ |-> "wildcard", new_key |-> Strip(m.new_key),
             source_key |-> m.source_key,
             from_obj |-> WildcardPattern(frm), to |-> m.to]
       ELSE [typ |-> "exact", new_key |-> Strip(m.new_key),
             source_key |-> m.source_key, from_obj |-> frm, to |-> m.to]

\* parse_tag_maps: the rules of the specs, in order.  An option that was not
\* given (None) is the empty list here: the code tests "not map_args", which
\* holds of both.  A spec that raises leaves a BadRule; see Raises.
parse_tag_maps(map_args) == [k \in 1..Len(map_args) |-> ParseTagMap(map_args[k])]

parse_name_maps(map_args) == [k \in 1..Len(map_args) |-> ParseNameMap(map_args[k])]

parse_tag_injects(inject_args) ==
    [k \in 1..Len(inject_args) |-> ParseTagInject(inject_args[k])]

\* Did parsing the list raise?
Raises(rules) == \E k \in 1..Len(rules) : rules[k].typ = "raised"

(***************************************************************************)
(* Rule application                                                        *)
(***************************************************************************)

\* from_obj.pattern.lstrip("^").rstrip(".*$").replace("\\", "")
WildcardPrefix(from_obj) ==
    RemoveChar(RStrip(LStrip(from_obj.pattern, {"^"}), {".", "*", "$"}), "\\")

\* "if value.startswith(prefix): return repl + value[len(prefix):]", and
\* what happens otherwise.
WildcardReplace(prefix, value, repl, otherwise) ==
    IF StartsWith(value, prefix) THEN repl \o SliceFrom(value, Len(prefix))
    ELSE otherwise

\* "if new_value != value: return new_value", and what happens otherwise.
ChangedOr(new_value, value, otherwise) ==
    IF new_value # value THEN new_value ELSE otherwise

\* The loop of apply_tag_maps from rule i on.  Raised when re.sub raises.
RECURSIVE ApplyTagMapsFrom(_, _, _, _)
ApplyTagMapsFrom(tag, value, rules, i) ==
    IF i > Len(rules) THEN value
    ELSE IF rules[i].tag # tag THEN ApplyTagMapsFrom(tag, value, rules, i + 1)
    ELSE IF rules[i].typ = "exact"
    THEN IF value = rules[i].from_obj THEN rules[i].repl
         ELSE ApplyTagMapsFrom(tag, value, rules, i + 1)
    ELSE IF ReMatch(rules[i].from_obj, value).ok
    THEN IF rules[i].typ = "wildcard"
         THEN WildcardReplace(WildcardPrefix(rules[i].from_obj), value,
                              rules[i].repl, value)
         ELSE ChangedOr(ReSub(rules[i].from_obj, rules[i].repl, value), value,
                        ApplyTagMapsFrom(tag, value, rules, i + 1))
    ELSE ApplyTagMapsFrom(tag, value, rules, i + 1)

apply_tag_maps(tag, value, rules) == ApplyTagMapsFrom(tag, value, rules, 1)

\* The loop of apply_name_maps from rule i on.
RECURSIVE ApplyNameMapsFrom(_, _, _)
ApplyNameMapsFrom(value, rules, i) ==
    IF i > Len(rules) THEN value
    ELSE IF rules[i].typ = "exact"
    THEN IF value = rules[i].from_obj THEN rules[i].repl
         ELSE ApplyNameMapsFrom(value, rules, i + 1)
    ELSE ChangedOr(ReSub(rules[i].from_obj, rules[i].repl, value), value,
                   ApplyNameMapsFrom(value, rules, i + 1))

apply_name_maps(value, rules) == ApplyNameMapsFrom(value, rules, 1)

\* Point.tag(key, value) on the tags of a point.
PutTag(tags, key, value) ==
    [k \in (DOMAIN tags) \cup {key} |-> IF k = key THEN value ELSE tags[k]]

\* In place of a point: building it raised.
PointRaised == [raised |-> TRUE]

HasRaised(p) == "raised" \in DOMAIN p

\* What an inject rule of a source tag tags the point with, given the source
\* tag's value: the new value, None when the rule does not fire, Raised when
\* re.sub raises.
DerivedValue(r, value) ==
    IF r.typ = "exact"
    THEN IF value = r.from_obj THEN r.to ELSE None
    ELSE IF ReMatch(r.from_obj, value).ok
    THEN IF r.typ = "wildcard"
         THEN WildcardReplace(WildcardPrefix(r.from_obj), value, r.to, None)
         ELSE ChangedOr(ReSub(r.from_obj, r.to, value), value, None)
    ELSE None

\* What one inject rule tags the point with, read from rec_values.
InjectValue(r, rec_values) ==
    IF r.typ = "static" THEN r.from_obj
    ELSE IF r.source_key \in DOMAIN rec_values /\ rec_values[r.source_key] # None
    THEN DerivedValue(r, rec_values[r.source_key])
    ELSE None

\* The loop of apply_tag_injects from rule i on, on the point's tags.
RECURSIVE ApplyTagInjectsFrom(_, _, _, _), InjectStep(_, _, _, _, _)
ApplyTagInjectsFrom(point_, rec_values, rules, i) ==
    IF i > Len(rules) THEN point_
    ELSE InjectStep(point_, rec_values, rules, i,
                    InjectValue(rules[i], rec_values))
InjectStep(point_, rec_values, rules, i, v) ==
    IF v = Raised THEN PointRaised
    ELSE ApplyTagInjectsFrom(
             IF v = None THEN point_
             ELSE [point_ EXCEPT !.tags = PutTag(@, rules[i].new_key, v)],
             rec_values, rules, i + 1)

\* apply_tag_injects reading the point's own (mapped) tags.
apply_tag_injects_mapped(point_, rec_values, rules) ==
    ApplyTagInjectsFrom(point_, point_.tags, rules, 1)

apply_tag_injects(point_, rec_values, rules) ==
    ApplyTagInjectsFrom(point_, rec_values, rules, 1)

\* The keys record_to_point never copies as tags.
skip ==
    {<<"r", "e", "s", "u", "l", "t">>, <<"t", "a", "b", "l", "e">>,
     <<"_", "s", "t", "a", "r", "t">>, <<"_", "s", "t", "o", "p">>,
     <<"_", "t", "i", "m", "e">>,
     <<"_", "m", "e", "a", "s", "u", "r", "e", "m", "e", "n", "t">>,
     <<"_", "f", "i", "e", "l", "d">>, <<"_", "v", "a", "l", "u", "e">>}

\* The keys of rec.values that record_to_point copies as tags.
TagKeys(rec) ==
    {k \in DOMAIN rec.values :
        ~(k \in skip \/ StartsWith(k, <<"_">>) \/ rec.values[k] = None)}

\* The end of record_to_point: the field and the time are set on the point.
WithField(p, new_field, rec_) ==
    IF HasRaised(p) \/ new_field = Raised THEN PointRaised
    ELSE [name |-> p.name, tags |-> p.tags, field |-> new_field,
          value |-> rec_.value, time |-> rec_.time]

\* The middle of record_to_point: the inject rules read rec.values, after
\* the point got the mapped tags.
WithInjects(new_measurement, mapped, rec_, field_rules_, inject_rules_) ==
    IF new_measurement = Raised \/ (\E k \in DOMAIN mapped : mapped[k] = Raised)
    THEN PointRaised
    ELSE WithField(apply_tag_injects([name |-> new_measurement, tags |-> mapped],
                                     rec_.values, inject_rules_),
                   apply_name_maps(rec_.field, field_rules_), rec_)

\* record_to_point: a record is its measurement, field, value and time (what
\* the get_ accessors return) and its values dict.  The tags of the new point
\* are the mapped values of the record's tags.
record_to_point(rec_, tag_rules_, measurement_rules_, field_rules_, inject_rules_) ==
    WithInjects(apply_name_maps(rec_.measurement, measurement_rules_),
                [k \in TagKeys(rec_) |-> apply_tag_maps(k, rec_.values[k], tag_rules_)],
                rec_, field_rules_, inject_rules_)

(***************************************************************************)
(* Command-line values                                                     *)
(*                                                                         *)
(* A --start/--stop value is known by the form parse_time and to_dt tell   *)
(* apart: "rfc3339" matches RFC3339_RE and names second n; "rfc3339_bad"   *)
(* matches RFC3339_RE but names no date (month 13), which only             *)
(* fromisoformat rejects; "duration" matches DURATION_RE; "now" is         *)
(* "now()"; "iso" is another format fromisoformat accepts; "garbage" is    *)
(* anything else; "absent" is an option that was not given.                *)
(***************************************************************************)
TimeArg(form, n, unit) == [form |-> form, n |-> n, unit |-> unit]

Absent == TimeArg("absent", 0, "s")

\* The multipliers of parse_window and to_dt.
Mult(unit) ==
    CASE unit = "s" -> 1 [] unit = "m" -> 60 [] unit = "h" -> 3600
      [] unit = "d" -> 86400 [] unit = "w" -> 604800

Units == {"s", "m", "h", "d", "w"}

\* What a parser returns when it raises ValueError.
TimeRaised == TimeArg("raised", 0, "s")

\* parse_time: the value as to_dt will read it.
parse_time(ts) ==
    CASE ts.form = "absent" -> ts
      [] ts.form = "now" -> ts
      [] ts.form \in {"rfc3339", "rfc3339_bad"} -> ts
      [] ts.form = "duration" -> ts
      [] ts.form = "iso" -> TimeArg("rfc3339", ts.n, "s")
      [] OTHER -> TimeRaised

\* parse_window: the seconds of the timedelta; not ok when it raises (the
\* string is not digits followed by one unit letter).
parse_window(s) ==
    IF Len(s) >= 2 /\ s[Len(s)] \in Units /\ AllDigits(SubSeq(s, 1, Len(s) - 1))
    THEN [ok |-> TRUE, seconds |-> ParseInt(SubSeq(s, 1, Len(s) - 1)) * Mult(s[Len(s)])]
    ELSE [ok |-> FALSE, seconds |-> 0]

\* to_dt(s) when datetime.now() reads now; not ok when fromisoformat raises.
to_dt(s, now) ==
    CASE s.form = "duration" -> [ok |-> TRUE, t |-> now - s.n * Mult(s.unit)]
      [] s.form = "now" -> [ok |-> TRUE, t |-> now]
      [] s.form = "rfc3339" -> [ok |-> TRUE, t |-> s.n]
      [] OTHER -> [ok |-> FALSE, t |-> 0]

Min(a, b) == IF a <= b THEN a ELSE b

\* WinStop without the clamp to abs_stop.
WinStopUnclamped(cur_, window_td_, abs_stop_) == cur_ + window_td_

\* win_stop = min(cur + window_td, abs_stop)
WinStop(cur_, window_td_, abs_stop_) == Min(cur_ + window_td_, abs_stop_)

\* ConflictingFlags with the two checks left out.
ConflictingFlagsUnchecked(a) == FALSE

\* "if args.verify and args.dry_run" / "if args.measurements and
\* args.measurement_regex": the two checks that end in sys.exit(1).
ConflictingFlags(a) ==
    (a.verify /\ a.dry_run) \/ (a.measurements /\ a.measurement_regex)

\* UsesCopyWindow with the --verify branch left out.
UsesCopyWindowAlways(a) == TRUE

\* Is the window copied by copy_window (and not only counted)?
UsesCopyWindow(a) == ~a.verify

\* IsSkipped without the test of get_time().
IsSkippedNoTime(r) ==
    \/ r.kind = "none"
    \/ r.kind = "other"
    \/ r.measurement = None \/ r.field = None

\* The test of copy_window that skips a record: a None record is falsy, a
\* missing measurement, field or time is None, and an object without the
\* accessors raises AttributeError, which is caught.
IsSkipped(r) ==
    \/ r.kind = "none"
    \/ r.kind = "other"
    \/ r.measurement = None \/ r.field = None \/ r.time = None

\* BatchFull with > for >=.
BatchFullLate(dry_run, batch_, batch_size) == ~dry_run /\ Len(batch_) > batch_size

\* "not dry_run and len(batch) >= batch_size"
BatchFull(dry_run, batch_, batch_size) == ~dry_run /\ Len(batch_) >= batch_size

\* FlushesRest without the final flush.
FlushesRestNever(dry_run, batch_) == FALSE

\* "not dry_run and batch": the rest of the batch is written after the stream.
FlushesRest(dry_run, batch_) == ~dry_run /\ batch_ # <<>>

(***************************************************************************)
(* Bounds and the inputs the model draws from                              *)
(***************************************************************************)

\* The most records one query stream yields.
MaxRecs == 3

\* The largest --batch-size.
MaxBatch == 2

\* The most iterations of the window loop that are followed (the loop itself
\* has no such limit).
MaxWindows == 3

\* What datetime.now() reads when to_dt is first called, and by how much the
\* clock may have advanced at the second call.
Now0 == 3

MaxDrift == 1

StartArgs ==
    {TimeArg("rfc3339", 1, "s"), TimeArg("duration", 2, "s"),
     TimeArg("rfc3339_bad", 0, "s"), TimeArg("garbage", 0, "s")}

StopArgs ==
    {Absent, TimeArg("rfc3339", 3, "s"), TimeArg("iso", 1, "s"),
     TimeArg("garbage", 0, "s")}

WindowArgs == {<<"0", "s">>, <<"1", "s">>, <<"2", "s">>, <<"1", "m">>, <<"6", "x">>}

\* The rule options of a run: none; the rules of the end-to-end scenario; a
\* regex rule whose replacement names a group the pattern does not have (it
\* parses, and re.sub raises when it is applied); a spec that does not parse.
RunRuleArgs ==
    {[tag_maps |-> <<>>, measurement_maps |-> <<>>, field_maps |-> <<>>,
      tag_injects |-> <<>>],
     [tag_maps |-> <<<<"i", "d", "=", "h", "e", "a", "t", "e", "r", "s", "*", "-", ">", "c", "o", "n", "t", "r", "o", "l">>>>,
      measurement_maps |-> <<<<"h", "e", "a", "t", "e", "r", "s", "-", ">", "c", "o", "n", "t", "r", "o", "l">>>>, field_maps |-> <<>>,
      tag_injects |-> <<<<"e", "n", "v", "=", "p", "r", "o", "d", "u", "c", "t", "i", "o", "n">>>>],
     [tag_maps |-> <<<<"i", "d", "=", "~", "/", "^", "h", "/", "-", ">", "\\", "2">>>>,
      measurement_maps |-> <<>>, field_maps |-> <<>>, tag_injects |-> <<>>],
     [tag_maps |-> <<>>, measurement_maps |-> <<>>, field_maps |-> <<>>,
      tag_injects |-> <<<<"z", "o", "n", "e">>>>]}

NoRules ==
    [tag_maps |-> <<>>, measurement_maps |-> <<>>, field_maps |-> <<>>,
     tag_injects |-> <<>>]

Args(v, d, m, mr, st, sp, w, b, r) ==
    [verify |-> v, dry_run |-> d, measurements |-> m, measurement_regex |-> mr,
     start |-> st, stop |-> sp, window |-> w, batch_size |-> b, rules |-> r]

\* The command lines of the model: write mode with every time, window and
\* batch size; every mode with every time and window; every mode with every
\* rule option; and --measurement together
\* with --measurement-regex.
RunArgs ==
    {Args(FALSE, FALSE, FALSE, FALSE, st, sp, w, b, NoRules) :
        st \in StartArgs, sp \in StopArgs, w \in WindowArgs, b \in 1..MaxBatch}
    \cup
    {Args(v, d, FALSE, FALSE, st, sp, w, MaxBatch, NoRules) :
        v \in BOOLEAN, d \in BOOLEAN, st \in StartArgs, sp \in StopArgs,
        w \in WindowArgs}
    \cup
    {Args(v, d, m, FALSE, TimeArg("rfc3339", 1, "s"), TimeArg("rfc3339", 3, "s"),
          <<"2", "s">>, MaxBatch, r) :
        v \in BOOLEAN, d \in BOOLEAN, m \in BOOLEAN, r \in RunRuleArgs}
    \cup
    {Args(FALSE, FALSE, TRUE, TRUE, TimeArg("rfc3339", 1, "s"), Absent,
          <<"1", "s">>, 1, NoRules)}

\* The n-th timestamp of a stream, as text.
Stamp(n) == <<"t", <<"1", "2", "3", "4", "5", "6", "7", "8", "9">>[n]>>

\* A record of the source with all its parts, the n-th of its stream.
FluxRecord(n) ==
    [kind |-> "record", measurement |-> <<"h", "e", "a", "t", "e", "r", "s">>, field |-> <<"t", "e", "m", "p">>,
     value |-> <<"2", "1", ".", "5">>, time |-> Stamp(n),
     values |-> (<<"i", "d">> :> <<"h", "e", "a", "t", "e", "r", "s", "_", "1">> @@ <<"d", "e", "v", "i", "c", "e">> :> <<"X">> @@ <<"_", "f", "i", "e", "l", "d">> :> <<"t", "e", "m", "p">>)]

\* An object that is no record: it has none of the accessors.
NoFluxRecord ==
    [kind |-> "other", measurement |-> None, field |-> None, value |-> None,
     time |-> None, values |-> << >>]

\* The ways a yielded record can be malformed: no measurement, no accessors,
\* no time, no field; k chooses among them.
Malformed(n, k) ==
    <<[FluxRecord(n) EXCEPT !.measurement = None], NoFluxRecord,
      [FluxRecord(n) EXCEPT !.time = None],
      [FluxRecord(n) EXCEPT !.field = None]>>[((k - 1) % 4) + 1]

\* The records the stream of window window_ may yield as its n-th: a whole one
\* or a malformed one, the way it is malformed changing with n and the window.
StreamRecords(n, window_) == {FluxRecord(n), Malformed(n, n + window_ - 1)}

(***************************************************************************)
(* run() and copy_window() as a state machine                              *)
(***************************************************************************)
VARIABLES
    args,               \* the parsed command line
    pc,                 \* where run() / copy_window() is
    exit,               \* "running", "ok" (exit 0), "exit1" (sys.exit(1)),
                        \* "raised" (an exception left run())
    raising,            \* an exception is propagating out of the try block
    start, stop, window_td,         \* run(): lines 426-428
    src, dst,                       \* the two clients: "none", "open", "closed"
    tag_rules, measurement_rules, field_rules, inject_rules,
    abs_start, abs_stop, total, cur, i, win_stop, moved, c,
    w, count, batch, rec,           \* copy_window(): its locals
    point,                          \* the point record_to_point returned last
    probe,                          \* a direct call of apply_tag_maps
    \* what the run did, for the properties:
    windows,            \* the windows the loop entered, in order
    nqueries,           \* query_stream calls
    nwrites,            \* w.write calls
    ntransformed,       \* record_to_point calls
    yielded,            \* the records the current window's stream yielded
    written,            \* the batches written in the current window
    logged,             \* the points logged by dry-run in the current window
    reported,           \* the running total of the last report line
    sum_local,          \* the sum of the window-local counts so far
    calls               \* the calls to source and destination, in order

vars ==
    <<args, pc, exit, raising, start, stop, window_td, src, dst, tag_rules,
      measurement_rules, field_rules, inject_rules, abs_start, abs_stop, total,
      cur, i, win_stop, moved, c, w, count, batch, rec, point, probe, windows,
      nqueries, nwrites, ntransformed, yielded, written, logged, reported,
      sum_local, calls>>

argVars == <<args>>

parsedVars == <<start, stop, window_td>>

clientVars == <<src, dst>>

ruleVars == <<tag_rules, measurement_rules, field_rules, inject_rules>>

loopVars == <<abs_start, abs_stop, total, cur, i, win_stop, moved, c>>

copyVars == <<w, count, batch, rec, point>>

ghostVars ==
    <<windows, nqueries, nwrites, ntransformed, yielded, written, logged,
      reported, sum_local, calls>>

NoRecord ==
    [kind |-> "none", measurement |-> None, field |-> None, value |-> None,
     time |-> None, values |-> << >>]

NoProbe == [tag |-> None, value |-> None, out |-> None]

\* A call to the source or the destination made in window window_: "query"
\* (query_stream was called), "write" (w.write returned), "write_failed"
\* (w.write raised), "query_failed" (the query or its stream raised).
Call(op, window_) == [op |-> op, window |-> window_]

\* The state before run() is called with the command line a.
Start(a) ==
    /\ args = a
    /\ exit = "running" /\ raising = FALSE
    /\ start = Absent /\ stop = Absent /\ window_td = 0
    /\ src = "none" /\ dst = "none"
    /\ tag_rules = <<>> /\ measurement_rules = <<>>
    /\ field_rules = <<>> /\ inject_rules = <<>>
    /\ abs_start = 0 /\ abs_stop = 0 /\ total = 0 /\ cur = 0 /\ i = 0
    /\ win_stop = 0 /\ moved = 0 /\ c = 0
    /\ w = "none" /\ count = 0 /\ batch = <<>> /\ rec = NoRecord
    /\ point = PointRaised /\ probe = NoProbe
    /\ windows = <<>> /\ nqueries = 0 /\ nwrites = 0 /\ ntransformed = 0
    /\ yielded = <<>> /\ written = <<>> /\ logged = 0 /\ reported = 0
    /\ sum_local = 0 /\ calls = <<>>

Init == pc = "check_flags" /\ \E a \in RunArgs : Start(a)

\* An exception leaves run() outside its try block.
Die == pc' = "done" /\ exit' = "raised"

\* Throw with the exception caught and dropped at the end of the window.
ThrowSwallowed == pc' = "after_window" /\ raising' = raising

\* An exception inside the try block: the finally clause runs next.
Throw == pc' = "finally" /\ raising' = TRUE

\* Lines 410-415: the two checks that end in sys.exit(1).
CheckFlags ==
    /\ pc = "check_flags"
    /\ IF ConflictingFlags(args)
       THEN pc' = "done" /\ exit' = "exit1"
       ELSE pc' = "parse_args" /\ exit' = exit
    /\ UNCHANGED <<argVars, raising, parsedVars, clientVars, ruleVars, loopVars,
                   copyVars, probe, ghostVars>>

\* Lines 426-428: parse_time of --start and --stop, parse_window.
ParseArgs ==
    /\ pc = "parse_args"
    /\ LET st == parse_time(args.start)
           sp == parse_time(args.stop)
           wd == parse_window(args.window)
       IN IF st = TimeRaised \/ sp = TimeRaised \/ ~wd.ok
          THEN Die /\ UNCHANGED parsedVars
          ELSE /\ start' = st /\ stop' = sp /\ window_td' = wd.seconds
               /\ pc' = "build_src" /\ exit' = exit
    /\ UNCHANGED <<argVars, raising, clientVars, ruleVars, loopVars, copyVars,
                   probe, ghostVars>>

\* Line 431: src = build_client(src_cfg); the constructor may raise.
BuildSrc ==
    /\ pc = "build_src"
    /\ \/ src' = "open" /\ pc' = "build_dst" /\ exit' = exit
       \/ Die /\ src' = src
    /\ UNCHANGED <<argVars, raising, parsedVars, dst, ruleVars, loopVars,
                   copyVars, probe, ghostVars>>

\* Line 432: dst = build_client(dst_cfg); the constructor may raise.
BuildDst ==
    /\ pc = "build_dst"
    /\ \/ dst' = "open" /\ pc' = "parse_rules" /\ exit' = exit
       \/ Die /\ dst' = dst
    /\ UNCHANGED <<argVars, raising, parsedVars, src, ruleVars, loopVars,
                   copyVars, probe, ghostVars>>

\* Lines 434-445: the four rule lists are parsed, the clients being open.
ParseRules ==
    /\ pc = "parse_rules"
    /\ tag_rules' = parse_tag_maps(args.rules.tag_maps)
    /\ measurement_rules' = parse_name_maps(args.rules.measurement_maps)
    /\ field_rules' = parse_name_maps(args.rules.field_maps)
    /\ inject_rules' = parse_tag_injects(args.rules.tag_injects)
    /\ IF Raises(tag_rules') \/ Raises(measurement_rules')
          \/ Raises(field_rules') \/ Raises(inject_rules')
       THEN Die
       ELSE pc' = "to_dt" /\ exit' = exit
    /\ UNCHANGED <<argVars, raising, parsedVars, clientVars, loopVars, copyVars,
                   probe, ghostVars>>

\* Lines 457-462: abs_start, abs_stop (now when --stop is absent), total, cur, i.
ToDt ==
    /\ pc = "to_dt"
    /\ \E drift \in 0..MaxDrift :
         LET a == to_dt(start, Now0)
             b == IF stop.form = "absent" THEN [ok |-> TRUE, t |-> Now0 + drift]
                  ELSE to_dt(stop, Now0 + drift)
         IN IF ~a.ok \/ ~b.ok
            THEN Die /\ UNCHANGED <<abs_start, abs_stop, cur>>
            ELSE /\ abs_start' = a.t /\ abs_stop' = b.t /\ cur' = a.t
                 /\ pc' = "loop" /\ exit' = exit
    /\ total' = 0 /\ i' = 0
    /\ UNCHANGED <<argVars, raising, parsedVars, clientVars, ruleVars, win_stop,
                   moved, c, copyVars, probe, ghostVars>>

\* Lines 464-470: the loop test and the head of an iteration.
WindowBegin ==
    /\ pc = "loop"
    /\ IF cur < abs_stop
       THEN /\ i < MaxWindows
            /\ i' = i + 1
            /\ win_stop' = WinStop(cur, window_td, abs_stop)
            /\ windows' = Append(windows, [s |-> cur, e |-> win_stop'])
            /\ pc' = IF UsesCopyWindow(args) THEN "copy_open" ELSE "verify"
       ELSE /\ pc' = "report"
            /\ UNCHANGED <<i, win_stop, windows>>
    /\ yielded' = <<>> /\ written' = <<>> /\ logged' = 0
    /\ UNCHANGED <<argVars, exit, raising, parsedVars, clientVars, ruleVars,
                   abs_start, abs_stop, total, cur, moved, c, copyVars, probe,
                   nqueries, nwrites, ntransformed, reported, sum_local,
                   calls>>

\* Lines 472-474 (--verify): the stream is counted; the query may fail.
VerifyWindow ==
    /\ pc = "verify"
    /\ nqueries' = nqueries + 1
    /\ \/ \E n \in 0..MaxRecs :
            /\ c' = n /\ moved' = 0
            /\ calls' = Append(calls, Call("query", i))
            /\ pc' = "after_window" /\ raising' = raising
       \/ /\ Throw /\ UNCHANGED <<c, moved>>
          /\ calls' = calls \o <<Call("query", i), Call("query_failed", i)>>
    /\ UNCHANGED <<argVars, exit, parsedVars, clientVars, ruleVars, abs_start,
                   abs_stop, total, cur, i, win_stop, copyVars, probe, windows,
                   nwrites, ntransformed, yielded, written, logged, reported,
                   sum_local>>

\* copy_window, lines 335-339: the write api (None on a dry run), count,
\* batch, and the query.
CopyOpen ==
    /\ pc = "copy_open"
    /\ w' = IF ~args.dry_run THEN "open" ELSE "none"
    /\ count' = 0 /\ batch' = <<>>
    /\ nqueries' = nqueries + 1
    /\ calls' = Append(calls, Call("query", i))
    /\ pc' = "copy_pull"
    /\ UNCHANGED <<argVars, exit, raising, parsedVars, clientVars, ruleVars,
                   loopVars, rec, point, probe, windows, nwrites, ntransformed,
                   yielded, written, logged, reported, sum_local>>

\* Line 339: the stream yields its next record, ends, or fails.
CopyPull ==
    /\ pc = "copy_pull"
    /\ \/ /\ Len(yielded) < MaxRecs
          /\ \E r \in StreamRecords(Len(yielded) + 1, i) :
                rec' = r /\ yielded' = Append(yielded, r)
          /\ pc' = "copy_record" /\ raising' = raising /\ calls' = calls
       \/ /\ pc' = "copy_flush" /\ raising' = raising
          /\ UNCHANGED <<rec, yielded, calls>>
       \/ /\ Throw /\ UNCHANGED <<rec, yielded>>
          /\ calls' = Append(calls, Call("query_failed", i))
    /\ UNCHANGED <<argVars, exit, parsedVars, clientVars, ruleVars, loopVars,
                   w, count, batch, point, probe, windows, nqueries, nwrites,
                   ntransformed, written, logged, reported, sum_local>>

\* Lines 340-350: a malformed record is skipped; another is transformed, then
\* logged (dry run) or appended to the batch, and counted.
CopyRecord ==
    /\ pc = "copy_record"
    /\ IF IsSkipped(rec)
       THEN /\ pc' = "copy_pull"
            /\ UNCHANGED <<raising, point, batch, count, ntransformed, logged>>
       ELSE /\ ntransformed' = ntransformed + 1
            /\ point' = record_to_point(rec, tag_rules, measurement_rules,
                                        field_rules, inject_rules)
            /\ IF HasRaised(point')
               THEN Throw /\ UNCHANGED <<batch, count, logged>>
               ELSE /\ IF args.dry_run
                       THEN logged' = logged + 1 /\ batch' = batch
                       ELSE batch' = Append(batch, point') /\ logged' = logged
                    /\ count' = count + 1
                    /\ pc' = "copy_full" /\ raising' = raising
    /\ UNCHANGED <<argVars, exit, parsedVars, clientVars, ruleVars, loopVars,
                   w, rec, probe, windows, nqueries, nwrites, yielded, written,
                   reported, sum_local, calls>>

\* Lines 351-353: a full batch is written and cleared; the write may fail.
CopyFull ==
    /\ pc = "copy_full"
    /\ IF BatchFull(args.dry_run, batch, args.batch_size)
       THEN /\ nwrites' = nwrites + 1
            /\ \/ /\ written' = Append(written, batch)
                  /\ calls' = Append(calls, Call("write", i))
                  /\ batch' = <<>>
                  /\ pc' = "copy_pull" /\ raising' = raising
               \/ /\ Throw /\ UNCHANGED <<written, batch>>
                  /\ calls' = Append(calls, Call("write_failed", i))
       ELSE /\ pc' = "copy_pull"
            /\ UNCHANGED <<nwrites, written, batch, raising, calls>>
    /\ UNCHANGED <<argVars, exit, parsedVars, clientVars, ruleVars, loopVars,
                   w, count, rec, point, probe, windows, nqueries, ntransformed,
                   yielded, logged, reported, sum_local>>

\* Lines 354-358 and 476: the rest of the batch is written, the write api is
\* closed, and count is returned into moved.
CopyFlush ==
    /\ pc = "copy_flush"
    /\ IF FlushesRest(args.dry_run, batch)
       THEN /\ nwrites' = nwrites + 1
            /\ \/ /\ written' = Append(written, batch)
                  /\ calls' = Append(calls, Call("write", i))
                  /\ w' = "closed" /\ moved' = count
                  /\ pc' = "after_window" /\ raising' = raising
               \/ /\ Throw /\ UNCHANGED <<written, w, moved>>
                  /\ calls' = Append(calls, Call("write_failed", i))
       ELSE /\ w' = IF w = "open" THEN "closed" ELSE w
            /\ moved' = count
            /\ pc' = "after_window"
            /\ UNCHANGED <<nwrites, written, raising, calls>>
    /\ UNCHANGED <<argVars, exit, parsedVars, clientVars, ruleVars, abs_start,
                   abs_stop, total, cur, i, win_stop, c, count, batch, rec,
                   point, probe, windows, nqueries, ntransformed, yielded,
                   logged, reported, sum_local>>

\* The number of points in a sequence of batches.
RECURSIVE PointsIn(_)
PointsIn(batches) ==
    IF batches = <<>> THEN 0 ELSE Len(Head(batches)) + PointsIn(Tail(batches))

\* The window-local count of the window just processed: the points written
\* (write mode), the points logged (dry run), the records counted (verify).
WindowLocal ==
    IF args.verify THEN c
    ELSE IF args.dry_run THEN logged
    ELSE PointsIn(written)

\* Lines 482-489: total += moved, the report line, cur = win_stop.
AfterWindow ==
    /\ pc = "after_window"
    /\ total' = total + moved
    /\ reported' = total'
    /\ sum_local' = sum_local + WindowLocal
    /\ cur' = win_stop
    /\ pc' = "loop"
    /\ UNCHANGED <<argVars, exit, raising, parsedVars, clientVars, ruleVars,
                   abs_start, abs_stop, i, win_stop, moved, c, copyVars, probe,
                   windows, nqueries, nwrites, ntransformed, yielded, written,
                   logged, calls>>

\* Lines 490-495: the final report line.
Report ==
    /\ pc = "report"
    /\ pc' = "finally"
    /\ UNCHANGED <<argVars, exit, raising, parsedVars, clientVars, ruleVars,
                   loopVars, copyVars, probe, ghostVars>>

\* Lines 496-498: the finally clause releases both clients; the run ends with
\* exit 0, or with the exception that was propagating.
Finally ==
    /\ pc = "finally"
    /\ src' = "closed" /\ dst' = "closed"
    /\ exit' = IF raising THEN "raised" ELSE "ok"
    /\ pc' = "done"
    /\ UNCHANGED <<argVars, raising, parsedVars, ruleVars, loopVars, copyVars,
                   probe, ghostVars>>

Next ==
    \/ CheckFlags \/ ParseArgs \/ BuildSrc \/ BuildDst \/ ParseRules \/ ToDt
    \/ WindowBegin \/ VerifyWindow \/ CopyOpen \/ CopyPull \/ CopyRecord
    \/ CopyFull \/ CopyFlush \/ AfterWindow \/ Report \/ Finally

Spec == Init /\ [][Next]_vars

(***************************************************************************)
(* Properties of run() and copy_window(), checked under Spec                *)
(***************************************************************************)

\* ceil(a / b) for a >= 0 and b > 0.
CeilDiv(a, b) == (a + b - 1) \div b

WriteMode == ~args.verify /\ ~args.dry_run

\* C1: for start < stop and a window duration > 0, the windows the loop
\* processes begin at start, each begins where the one before it ended, each
\* is non-empty and has the window's duration except the last, which is cut
\* at stop; and when the loop has run to its end they end exactly at stop and
\* there are ceil((stop - start) / duration) of them.
WindowsContiguous ==
    /\ (window_td > 0 /\ windows # <<>>) =>
          /\ abs_start < abs_stop
          /\ windows[1].s = abs_start
          /\ \A k \in 1..Len(windows) :
                /\ windows[k].s < windows[k].e
                /\ windows[k].e <= abs_stop
                /\ windows[k].e - windows[k].s <= window_td
          /\ \A k \in 1..(Len(windows) - 1) :
                /\ windows[k + 1].s = windows[k].e
                /\ windows[k].e - windows[k].s = window_td
    /\ (window_td > 0 /\ exit = "ok" /\ abs_start < abs_stop) =>
          /\ windows # <<>>
          /\ windows[Len(windows)].e = abs_stop
          /\ Len(windows) = CeilDiv(abs_stop - abs_start, window_td)

\* C1 witness: a finished run of several windows whose last window was cut
\* at stop.
WindowsContiguousWitness ==
    /\ exit = "ok" /\ window_td > 0
    /\ Len(windows) >= 2
    /\ windows[Len(windows)].e - windows[Len(windows)].s < window_td

\* The records of the current window's stream that passed the malformed check.
Passed == {k \in 1..Len(yielded) : ~IsSkipped(yielded[k])}

\* C2: in write mode with a batch size B >= 1, the batch never holds more than
\* B points, and a window whose stream yielded N records that pass the
\* malformed-record check is written in ceil(N / B) write calls, each of B
\* points except the last, which has N mod B (B when that is 0).
BatchedWrites ==
    (WriteMode /\ args.batch_size >= 1) =>
        /\ Len(batch) <= args.batch_size
        /\ pc = "after_window" =>
              LET N == Cardinality(Passed)
                  B == args.batch_size
              IN /\ Len(written) = CeilDiv(N, B)
                 /\ \A k \in 1..(Len(written) - 1) : Len(written[k]) = B
                 /\ written # <<>> =>
                       Len(written[Len(written)]) = IF N % B = 0 THEN B ELSE N % B

\* C2 witness: a window of three good records written with batch size two,
\* in a full batch and a rest of one.
BatchedWritesWitness ==
    /\ WriteMode /\ pc = "after_window" /\ args.batch_size = 2
    /\ Cardinality(Passed) = 3 /\ Len(yielded) = 3
    /\ Len(written) = 2 /\ Len(written[2]) = 1

\* C3: with --dry-run or --verify no write call is issued and no point is
\* batched, and with --verify no record is transformed.
NoWriteUnlessWriteMode ==
    /\ (args.verify \/ args.dry_run) =>
          nwrites = 0 /\ written = <<>> /\ batch = <<>> /\ w # "open"
    /\ args.verify => ntransformed = 0

\* C3 witness: a dry run that finished after transforming and logging records.
NoWriteUnlessWriteModeWitness ==
    /\ args.dry_run /\ exit = "ok"
    /\ ntransformed >= 2 /\ total >= 2

\* The configuration errors: conflicting flags, a --start or --stop that is no
\* time, a --window that parse_window rejects, a rule spec that does not parse.
ConfigError(a) ==
    \/ a.verify /\ a.dry_run
    \/ a.measurements /\ a.measurement_regex
    \/ a.start.form \in {"garbage", "rfc3339_bad"}
    \/ a.stop.form \in {"garbage", "rfc3339_bad"}
    \/ ~parse_window(a.window).ok
    \/ Raises(parse_tag_maps(a.rules.tag_maps))
    \/ Raises(parse_name_maps(a.rules.measurement_maps))
    \/ Raises(parse_name_maps(a.rules.field_maps))
    \/ Raises(parse_tag_injects(a.rules.tag_injects))

\* C4: a run with a configuration error never enters the window loop, issues
\* no query and no write, and ends with a non-zero exit.
ConfigErrorFailsFast ==
    ConfigError(args) =>
        /\ windows = <<>> /\ nqueries = 0 /\ nwrites = 0
        /\ pc \in {"check_flags", "parse_args", "build_src", "build_dst",
                   "parse_rules", "to_dt", "done"}
        /\ pc = "done" => exit \in {"exit1", "raised"}

\* C4 witness: a run that ended on a rule spec that does not parse.
ConfigErrorFailsFastWitness ==
    /\ pc = "done" /\ exit = "raised"
    /\ Raises(inject_rules)
    /\ nqueries = 0

\* C5 (as claimed): when the run has ended, no client that was acquired is
\* still open.
ClientsReleased == pc = "done" => (src # "open" /\ dst # "open")

\* C6 (as claimed): the running total of the report line is the sum of the
\* window-local counts of the windows processed so far.
TotalIsSumOfWindows == reported = sum_local

\* The calls that raised.
FailedOps == {"query_failed", "write_failed"}

\* The number of calls of the log whose op is in ops.
CallsOf(ops) == Cardinality({j \in 1..Len(calls) : calls[j].op \in ops})

\* C11: when a query or a write call fails in window k the run aborts: the
\* failed call is the last call of the run (no later query, no later write, no
\* retry, no window after k), the run goes to its end with the exception, and
\* every call made before it, those of windows 1..k-1 included, had returned;
\* the write api of a window is closed before the next window begins.
FailureAborts ==
    /\ (WriteMode /\ i >= 1 /\ pc \in {"after_window", "loop"}) => w = "closed"
    /\ (WriteMode /\ i >= 2 /\ pc = "copy_open") => w = "closed"
    /\ nqueries = CallsOf({"query"})
    /\ nwrites = CallsOf({"write", "write_failed"})
    /\ \A j \in 1..Len(calls) :
          calls[j].op \in FailedOps =>
             /\ j = Len(calls)
             /\ calls[j].window = i /\ Len(windows) = i
             /\ raising /\ pc \in {"finally", "done"}
             /\ pc = "done" => exit = "raised"
             /\ \A h \in 1..(j - 1) :
                   /\ calls[h].op \notin FailedOps
                   /\ calls[h].window <= calls[j].window

\* C11 witness: a run that ended on a write call that failed in its second
\* window, after a write call of the first window.
FailureAbortsWitness ==
    /\ pc = "done" /\ exit = "raised" /\ calls # <<>>
    /\ calls[Len(calls)] = Call("write_failed", 2)
    /\ \E h \in 1..Len(calls) : calls[h] = Call("write", 1)

\* A record whose measurement, field or timestamp is absent, or that has none
\* of the accessors.
LacksPart(r) ==
    r.kind = "other" \/ r.measurement = None \/ r.field = None \/ r.time = None

\* The records of the current stream that copy_window is done with.
Handled == IF pc = "copy_record" THEN Len(yielded) - 1 ELSE Len(yielded)

\* Those among the first n records of the current stream that lack no part.
Whole(n) == {k \in 1..n : ~LacksPart(yielded[k])}

\* What copy_window has counted, batched, written and logged covers the whole
\* records it is done with, and no other.
CountsWholeRecords ==
    (~args.verify /\ ~raising) =>
        /\ pc \in {"copy_pull", "copy_record", "copy_full", "copy_flush"} =>
              /\ count = Cardinality(Whole(Handled))
              /\ ~args.dry_run => PointsIn(written) + Len(batch) = count
              /\ args.dry_run => logged = count
        /\ pc = "after_window" =>
              /\ moved = Cardinality(Whole(Len(yielded)))
              /\ WindowLocal = moved

\* The step of copy_window on a record that lacks a part: nothing is
\* transformed, batched, logged or counted, nothing is raised, and the next
\* record of the stream is pulled.
SkipStep ==
    (pc = "copy_record" /\ LacksPart(rec)) =>
        /\ pc' = "copy_pull" /\ raising' = raising /\ exit' = exit
        /\ ntransformed' = ntransformed /\ point' = point
        /\ batch' = batch /\ count' = count /\ logged' = logged
        /\ nwrites' = nwrites

\* C12: in write and dry-run mode a yielded record whose measurement, field
\* or timestamp is absent, or that lacks the accessors, is skipped: it is not
\* transformed, batched or counted, and the records after it (and so the
\* windows after it) are processed as if it had not been there.
MalformedSkipped == []CountsWholeRecords /\ [][SkipStep]_vars

\* C12 witness: the third window of a run ends having yielded a record
\* without a time, a record without a field and then a whole record, which
\* alone was counted.
MalformedSkippedWitness ==
    /\ ~args.verify /\ pc = "after_window" /\ i = 3
    /\ Len(yielded) = 3 /\ moved = 1
    /\ yielded[1].kind = "record" /\ yielded[1].time = None
    /\ yielded[2].kind = "record" /\ yielded[2].measurement # None
    /\ yielded[2].field = None
    /\ ~LacksPart(yielded[3])

\* The batches of a window laid end to end.
RECURSIVE Concat(_)
Concat(batches) ==
    IF batches = <<>> THEN <<>> ELSE Head(batches) \o Concat(Tail(batches))

\* The whole records among the first n of the current stream, in the order
\* the stream yielded them.
WholeRecords(n) == SelectSeq(SubSeq(yielded, 1, n), LAMBDA r : ~LacksPart(r))

\* The points of a sequence of records, in its order.
PointsOfRecords(recs) ==
    [k \in 1..Len(recs) |->
        record_to_point(recs[k], tag_rules, measurement_rules, field_rules,
                        inject_rules)]

\* C13: windows are processed one after another in time order, and within a
\* window the points sent are those of the stream's records in the stream's
\* order.  The calls of a window come after every call of the windows before
\* it, beginning with its one query (in the log, a query is the first call of
\* a later window than the call before it, and any other call belongs to the
\* window of the call before it); window k+1 begins where window k ended;
\* and in write mode the batches written so far followed by the batch in
\* memory are the points of the whole records handled so far, each once and in
\* the order yielded, the batch in memory being empty once the window ended.
OrderedDelivery ==
    /\ calls # <<>> => calls[1].op = "query"
    /\ \A j \in 1..(Len(calls) - 1) :
          IF calls[j + 1].op = "query"
          THEN calls[j].window < calls[j + 1].window
          ELSE calls[j].window = calls[j + 1].window
    /\ \A k \in 1..(Len(windows) - 1) :
          /\ windows[k + 1].s = windows[k].e
          /\ windows[k].s <= windows[k + 1].s
          /\ window_td > 0 => windows[k].s < windows[k + 1].s
    /\ (WriteMode /\ ~raising) =>
          /\ pc \in {"copy_pull", "copy_record", "copy_full", "copy_flush"} =>
                Concat(written) \o batch = PointsOfRecords(WholeRecords(Handled))
          /\ pc = "after_window" =>
                Concat(written) = PointsOfRecords(WholeRecords(Len(yielded)))

\* C13 witness: the second window of a run in write mode ends with a
\* malformed record and two whole ones written in a batch of one each, after
\* the first window wrote a batch.
OrderedDeliveryWitness ==
    /\ WriteMode /\ pc = "after_window" /\ i = 2
    /\ Len(yielded) = 3 /\ Len(written) = 2 /\ Len(Concat(written)) = 2
    /\ Concat(written)[1].time # Concat(written)[2].time
    /\ \E j \in 1..Len(calls) :
          calls[j] = Call("write", 1) /\ calls[j + 1] = Call("query", 2)

\* C14 (as claimed): for every --window that parse_window accepts, a zero
\* count included, every window the loop processes has start < end, so that
\* the cursor advances in every iteration and the loop ends: it runs no more
\* iterations than the range has seconds, and the cursor never passes stop.
WindowLoopAdvances ==
    parse_window(args.window).ok =>
        /\ \A k \in 1..Len(windows) : windows[k].s < windows[k].e
        /\ (pc = "loop" /\ i >= 1) => cur > windows[i].s
        /\ i >= 1 => i <= abs_stop - abs_start

(***************************************************************************)
(* The rule engine on its own: rule options are parsed as run() parses     *)
(* them, then apply_tag_maps is called on a tag, or record_to_point on a   *)
(* record.                                                                 *)
(***************************************************************************)

\* The --tag-map spec of the wildcard rule key=P*->T.
WildcardSpec(key, P, T) == key \o <<"=">> \o P \o <<"*", "-", ">">> \o T

\* Literal prefixes of wildcard rules: plain ones, and ones that end in ".",
\* in "$" or in a backslash.
Prefixes == {<<"h", "e", "a", "t", "e", "r", "s">>, <<"a">>, <<"a", ".">>, <<"a", "$">>, <<"a", "\\">>}

\* Wildcard rules for the tag id.
WildcardSpecs ==
    {WildcardSpec(<<"i", "d">>, <<"h", "e", "a", "t", "e", "r", "s">>, <<"c", "o", "n", "t", "r", "o", "l">>), WildcardSpec(<<"i", "d">>, <<"a">>, <<"a">>)}
    \cup {WildcardSpec(<<"i", "d">>, P, <<"T">>) : P \in Prefixes \ {<<"h", "e", "a", "t", "e", "r", "s">>}}

\* The --tag-map specs the rule lists are made of: the wildcard rules, the
\* regex rule with a group reference, an exact rule, an exact rule that maps
\* a value to itself, a regex rule that leaves its match as it is, and a
\* wildcard with the star in the middle.
TagMapSpecs ==
    WildcardSpecs
    \cup {<<"h", "o", "s", "t", "=", "~", "/", "^", "p", "r", "o", "d", "-", "(", "\\", "d", "+", ")", "$", "/", "-", ">", "s", "t", "a", "g", "e", "-", "$", "1">>, <<"i", "d", "=", "a", "b", "-", ">", "Z">>, <<"i", "d", "=", "a", "b", "-", ">", "a", "b">>, <<"i", "d", "=", "~", "/", "^", "a", "b", "$", "/", "-", ">", "a", "b">>, <<"i", "d", "=", "a", "*", "b", "-", ">", "T">>}

MaxRules == 2

\* The sequences of at most n elements of S.
RECURSIVE SeqsUpTo(_, _)
SeqsUpTo(S, n) ==
    IF n = 0 THEN {<<>>}
    ELSE SeqsUpTo(S, n - 1)
         \cup {Append(q, x) : q \in {r \in SeqsUpTo(S, n - 1) : Len(r) = n - 1}, x \in S}

\* The --tag-inject specs: static ones (one onto an existing tag), the derived
\* rule of the spec's example, a derived rule onto an existing tag, a derived
\* rule that fires only on a mapped value, and one of a tag no record has.
TagInjectSpecs ==
    {<<"e", "n", "v", "=", "p", "r", "o", "d", "u", "c", "t", "i", "o", "n">>, <<"z", "o", "n", "e", "=", "r", "a", "c", "k", ":", "p", "r", "o", "d", "-", "*", "-", ">", "w", "e", "s", "t", "-">>, <<"i", "d", "=", "i", "d", ":", "h", "e", "a", "t", "e", "r", "s", "*", "-", ">", "X">>, <<"z", "o", "n", "e", "=", "i", "d", ":", "c", "o", "n", "t", "r", "o", "l", "*", "-", ">", "C">>, <<"z", "o", "n", "e", "=", "m", "i", "s", "s", "i", "n", "g", ":", "a", "-", ">", "b">>, <<"i", "d", "=", "f", "i", "x", "e", "d">>, <<"z", "o", "n", "e", "=", "z">>}

\* The rule options of the rule engine's runs.
RuleArgs ==
    {[NoRules EXCEPT !.tag_maps = tm] : tm \in SeqsUpTo(TagMapSpecs, MaxRules)}
    \cup
    {[tag_maps |-> tm, measurement_maps |-> mm, field_maps |-> <<>>,
      tag_injects |-> ti] :
        tm \in {<<>>, <<WildcardSpec(<<"i", "d">>, <<"h", "e", "a", "t", "e", "r", "s">>, <<"c", "o", "n", "t", "r", "o", "l">>)>>},
        mm \in {<<>>, <<<<"h", "e", "a", "t", "e", "r", "s", "-", ">", "c", "o", "n", "t", "r", "o", "l">>>>},
        ti \in SeqsUpTo(TagInjectSpecs, MaxRules)}

\* The tags and values apply_tag_maps is called on.
ProbeTags == {<<"i", "d">>, <<"h", "o", "s", "t">>}

ProbeValues ==
    {<<"h", "e", "a", "t", "e", "r", "s", "_", "L", "H", "T", "_", "1">>, <<"s", "e", "n", "s", "o", "r", "s", "_", "X">>, <<"p", "r", "o", "d", "-", "7">>, <<"a", "b">>, <<"a", ".", "b">>, <<"a", "$", "b">>, <<"a", "\\", "b">>, <<"a", "x", "b">>}

\* The records record_to_point is called on: the record of the end-to-end
\* scenario with a rack tag, without it, and with a null rack.
ScenarioRecord ==
    [kind |-> "record", measurement |-> <<"h", "e", "a", "t", "e", "r", "s">>, field |-> <<"t", "e", "m", "p">>,
     value |-> <<"2", "1", ".", "5">>, time |-> Stamp(1),
     values |-> (<<"i", "d">> :> <<"h", "e", "a", "t", "e", "r", "s", "_", "L", "H", "T", "_", "1">> @@ <<"d", "e", "v", "i", "c", "e">> :> <<"X">>
                 @@ <<"_", "f", "i", "e", "l", "d">> :> <<"t", "e", "m", "p">>)]

ProbeRecords ==
    {ScenarioRecord,
     [ScenarioRecord EXCEPT !.values = @ @@ (<<"r", "a", "c", "k">> :> <<"p", "r", "o", "d", "-", "1", "2">>)],
     [ScenarioRecord EXCEPT !.values = @ @@ (<<"r", "a", "c", "k">> :> None)]}

RuleInit ==
    /\ pc = "rules_start"
    /\ \E r \in RuleArgs :
          Start(Args(FALSE, FALSE, FALSE, FALSE, TimeArg("rfc3339", 1, "s"),
                     Absent, <<"1", "s">>, 1, r))

\* Lines 434-445 of run(): the rule lists are parsed.
RuleParse ==
    /\ pc = "rules_start"
    /\ tag_rules' = parse_tag_maps(args.rules.tag_maps)
    /\ measurement_rules' = parse_name_maps(args.rules.measurement_maps)
    /\ field_rules' = parse_name_maps(args.rules.field_maps)
    /\ inject_rules' = parse_tag_injects(args.rules.tag_injects)
    /\ pc' = IF Raises(tag_rules') \/ Raises(measurement_rules')
                \/ Raises(field_rules') \/ Raises(inject_rules')
             THEN "rules_raised" ELSE "rules_ready"
    /\ UNCHANGED <<argVars, exit, raising, parsedVars, clientVars, loopVars,
                   copyVars, probe, ghostVars>>

\* apply_tag_maps(tag, value, tag_rules) is called.
RuleMap ==
    /\ pc = "rules_ready"
    /\ \E t \in ProbeTags, v \in ProbeValues :
          probe' = [tag |-> t, value |-> v, out |-> apply_tag_maps(t, v, tag_rules)]
    /\ pc' = "rules_mapped"
    /\ UNCHANGED <<argVars, exit, raising, parsedVars, clientVars, ruleVars,
                   loopVars, copyVars, ghostVars>>

\* record_to_point(rec, ...) is called.
RuleTransform ==
    /\ pc = "rules_ready"
    /\ \E r \in ProbeRecords :
          /\ rec' = r
          /\ point' = record_to_point(r, tag_rules, measurement_rules,
                                      field_rules, inject_rules)
    /\ pc' = "rules_point"
    /\ UNCHANGED <<argVars, exit, raising, parsedVars, clientVars, ruleVars,
                   loopVars, w, count, batch, probe, ghostVars>>

RuleNext == RuleParse \/ RuleMap \/ RuleTransform

RuleSpec == RuleInit /\ [][RuleNext]_vars

(***************************************************************************)
(* Properties of the rule engine, checked under RuleSpec                   *)
(***************************************************************************)

\* The scan of the tag-map rules as C7 describes it: a matching exact rule
\* returns its replacement; a matching regex or wildcard rule returns its
\* result only when that differs from the value, and otherwise the scan goes
\* on with the next rule; the value itself when no rule returns.
RECURSIVE ScanAsClaimed(_, _, _, _)
ScanAsClaimed(tag, value, rules, k) ==
    IF k > Len(rules) THEN value
    ELSE IF rules[k].tag # tag THEN ScanAsClaimed(tag, value, rules, k + 1)
    ELSE IF rules[k].typ = "exact"
    THEN IF value = rules[k].from_obj THEN rules[k].repl
         ELSE ScanAsClaimed(tag, value, rules, k + 1)
    ELSE IF ReMatch(rules[k].from_obj, value).ok
    THEN ChangedOr(IF rules[k].typ = "wildcard"
                   THEN WildcardReplace(WildcardPrefix(rules[k].from_obj), value,
                                        rules[k].repl, value)
                   ELSE ReSub(rules[k].from_obj, rules[k].repl, value),
                   value, ScanAsClaimed(tag, value, rules, k + 1))
    ELSE ScanAsClaimed(tag, value, rules, k + 1)

\* C7 (as claimed): apply_tag_maps returns what the scan described above
\* returns; in particular a wildcard rule that matches and leaves the value
\* as it is does not keep a later rule of the same key from being applied.
TagMapScanAsClaimed ==
    pc = "rules_mapped" =>
        probe.out = ScanAsClaimed(probe.tag, probe.value, tag_rules, 1)

\* C8 (as claimed): with the single wildcard rule key=P*->T, a value of that
\* key that starts with P becomes T followed by the value without its leading
\* P, and any other value is returned unchanged.
WildcardReplacesPrefix ==
    \A P \in Prefixes, T \in {<<"c", "o", "n", "t", "r", "o", "l">>, <<"T">>, <<"a">>} :
        (/\ pc = "rules_mapped"
         /\ args.rules.tag_maps = <<WildcardSpec(<<"i", "d">>, P, T)>>
         /\ probe.tag = <<"i", "d">>)
        => probe.out = IF StartsWith(probe.value, P)
                       THEN T \o SliceFrom(probe.value, Len(P))
                       ELSE probe.value

\* C9 (as claimed): the rule host=~/^prod-(\d+)$/->stage-$1 applied to the
\* tag host with the value prod-7 yields stage-7.
RegexGroupReference ==
    (/\ pc = "rules_mapped"
     /\ args.rules.tag_maps = <<<<"h", "o", "s", "t", "=", "~", "/", "^", "p", "r", "o", "d", "-", "(", "\\", "d", "+", ")", "$", "/", "-", ">", "s", "t", "a", "g", "e", "-", "$", "1">>>>
     /\ probe.tag = <<"h", "o", "s", "t">> /\ probe.value = <<"p", "r", "o", "d", "-", "7">>)
    => probe.out = <<"s", "t", "a", "g", "e", "-", "7">>

\* The inject rules that tag the record rec with the key k: the static ones,
\* and the derived ones that fire on the record's own value of their source tag.
Fired(k) ==
    {j \in 1..Len(inject_rules) :
        /\ inject_rules[j].new_key = k
        /\ InjectValue(inject_rules[j], rec.values) # None}

Max(S) == CHOOSE x \in S : \A y \in S : y <= x

\* The inject rules of the key k.
RulesOf(k) == {j \in 1..Len(inject_rules) : inject_rules[j].new_key = k}

SourceMissing(r) ==
    r.source_key \notin DOMAIN rec.values \/ rec.values[r.source_key] = None

\* C10: the tags of the point record_to_point returns are the record's tags
\* and the keys of the inject rules that fired; a key that an inject rule
\* fired for has the value of the last such rule, computed from the record's
\* original value of the source tag, and any other tag has its mapped value; a
\* static rule always leaves its key on the point; a key whose inject rules
\* are all derived from an absent or null source tag is not added, and
\* nothing raises.
InjectsReadOriginalTags ==
    pc = "rules_point" =>
        /\ ~HasRaised(point)
        /\ DOMAIN point.tags =
              TagKeys(rec) \cup {inject_rules[j].new_key : j \in
                                    {n \in 1..Len(inject_rules) :
                                        n \in Fired(inject_rules[n].new_key)}}
        /\ \A k \in DOMAIN point.tags :
              IF Fired(k) # {}
              THEN point.tags[k] = InjectValue(inject_rules[Max(Fired(k))], rec.values)
              ELSE point.tags[k] = apply_tag_maps(k, rec.values[k], tag_rules)
        /\ \A j \in 1..Len(inject_rules) :
              /\ inject_rules[j].typ = "static" =>
                    /\ inject_rules[j].new_key \in DOMAIN point.tags
                    /\ j = Max(RulesOf(inject_rules[j].new_key)) =>
                          point.tags[inject_rules[j].new_key] = inject_rules[j].from_obj
              /\ (/\ inject_rules[j].new_key \notin TagKeys(rec)
                  /\ \A n \in RulesOf(inject_rules[j].new_key) :
                        inject_rules[n].typ # "static" /\ SourceMissing(inject_rules[n]))
                 => inject_rules[j].new_key \notin DOMAIN point.tags

\* C10 witness: a point whose id tag was mapped (heaters to control) and
\* then replaced by an inject rule derived from the original id, next to a
\* rule that would fire only on the mapped value.
InjectsReadOriginalTagsWitness ==
    /\ pc = "rules_point"
    /\ args.rules.tag_maps = <<WildcardSpec(<<"i", "d">>, <<"h", "e", "a", "t", "e", "r", "s">>, <<"c", "o", "n", "t", "r", "o", "l">>)>>
    /\ args.rules.tag_injects = <<<<"i", "d", "=", "i", "d", ":", "h", "e", "a", "t", "e", "r", "s", "*", "-", ">", "X">>, <<"z", "o", "n", "e", "=", "i", "d", ":", "c", "o", "n", "t", "r", "o", "l", "*", "-", ">", "C">>>>
    /\ point.tags[<<"i", "d">>] = <<"X", "_", "L", "H", "T", "_", "1">>
    /\ <<"z", "o", "n", "e">> \notin DOMAIN point.tags

====
